---- MODULE Spec2Model ----
(***************************************************************************)
(* Remote-Execution-BE: the execution pipeline of app/executor and         *)
(* app/utils/security.  State machines over one set of variables:          *)
(*   Spec     the scheduler (an RQ queue on Redis drained by a pool of RQ  *)
(*            workers), the job function execute_agent_job, the sandbox    *)
(*            executor and the status and cancel operations;               *)
(*   RunSpec  one run of ContainerExecutor.execute_agent seen from the     *)
(*            inside: the AgentContext calls of the agent code and the     *)
(*            value the executor and the job function return;              *)
(*   ApiSpec  executions enqueued with a parent_execution_id, and the      *)
(*            routes of app/api that enqueue and wait for them.            *)
(*   NameSpec the container names of docker run and docker kill;           *)
(*   ValSpec  validate_agent_code over stored bundles, file by file;       *)
(*   SubmitSpec  POST /agents writing to and rolling back agent storage.   *)
(***************************************************************************)
EXTENDS Integers, Sequences, FiniteSets, TLC

(* ---------------------------------------------------------------------- *)
(* Bounds of the model                                                     *)
(* ---------------------------------------------------------------------- *)
\* the number of queue_execution calls, and of execution ids
MaxJobs == 2
\* the number of distinct jobs the worker pool takes off the queue
MaxRuns == 1
\* the size of the worker pool
NumWorkers == 2

Ids == 1..MaxJobs
Workers == 1..NumWorkers

(* ---------------------------------------------------------------------- *)
(* Agent storage: the bundles found under agent_storage_path               *)
(* ---------------------------------------------------------------------- *)
\* A bundle as the worker finds it under agent_storage_path/agent_id:
\* whether the directory exists, the number of issues found in each of its
\* .py files, the number of issues of requirements.txt, and whether
\* agent.py (the entry point) is there.
Bundles ==
  {[exists |-> TRUE,  pyIssues |-> <<0, 0>>, reqIssues |-> 0, entry |-> TRUE],
   [exists |-> TRUE,  pyIssues |-> <<0, 1>>, reqIssues |-> 0, entry |-> TRUE],
   [exists |-> TRUE,  pyIssues |-> <<0>>,    reqIssues |-> 1, entry |-> TRUE],
   [exists |-> TRUE,  pyIssues |-> <<0>>,    reqIssues |-> 0, entry |-> FALSE],
   [exists |-> FALSE, pyIssues |-> <<>>,     reqIssues |-> 0, entry |-> FALSE]}

\* The agent ids requests name.
Agents == {"echo"}

\* validation_issues: one entry per file that has at least one issue,
\* then one for requirements.txt when it has issues.
\* (variant: the manifest's issues do not count)
ValidationIssues_mut(bundle) ==
  SelectSeq(bundle.pyIssues, LAMBDA n : n > 0)

ValidationIssues(bundle) ==
  LET py == SelectSeq(bundle.pyIssues, LAMBDA n : n > 0)
  IN  IF bundle.reqIssues > 0 THEN Append(py, bundle.reqIssues) ELSE py

validate_agent_code(bundle) ==
  LET issues == ValidationIssues(bundle)
  IN  [valid  |-> Len(issues) = 0,
       issues |-> issues,
       reason |-> Len(issues) # 0]

(* ---------------------------------------------------------------------- *)
(* State                                                                   *)
(* ---------------------------------------------------------------------- *)
VARIABLES
  use_containers, \* ContainerExecutor.use_containers
  issued,         \* how many times queue_execution has returned each id
  queue,          \* the Redis list of the RQ queue "agent_executions"
  job,            \* the Redis job hashes, by job id
  taken,          \* the ids the worker pool has taken off the queue
  execCalls,      \* how many times execute_agent was invoked for a job
  cancelled,      \* the status a job had when cancel cancelled it, or "no"
  killSent,       \* whether cancel sent docker kill for a job
  wpc,            \* each worker's position
  wjob,           \* the job a worker has dequeued
  wdata,          \* job_data (the agent_id) a worker got with the job
  valRes,         \* what validate_agent_code returned in the worker's run
  workspace,      \* temp_dir of the worker's run: none, exists, removed
  container,      \* the container of the worker's run: none, running, exited
  execResult,     \* what execute_agent returned in the worker's run
  notified,       \* execution-complete notification attempts of the run
  wres,           \* the value the worker's job function returns
  ret             \* the value a status or cancel call has just returned

schedVars   == <<issued, queue, job>>
historyVars == <<taken, execCalls>>
cancelVars  == <<cancelled, killSent>>
workerVars  == <<wpc, wjob, wdata>>
sandboxVars == <<workspace, container>>
runVars     == <<valRes, execResult, notified, wres>>
poolVars == <<issued, queue, job, taken, execCalls, cancelled, killSent,
              wpc, wjob, wdata, valRes, workspace, container, execResult,
              notified, wres, ret>>

\* One run of ContainerExecutor.execute_agent seen from the inside: the
\* AgentContext the agent code is handed and what the executor returns.
VARIABLES
  rpc,            \* the position of the run
  run_input,      \* the bundle's entry point and the request's transcript
  ctx_results,    \* AgentContext._execution_results
  ctx_llm_calls,  \* AgentContext._llm_calls
  calls,          \* the context calls the agent code has made, in order
  undisturbed,    \* _execution_results had every delivery succeeded
  callRet,        \* what the last context call gave back to the agent code
  resultsCalls,   \* how many times get_execution_results was called
  ended,          \* how the entry point ended
  found,          \* what the executor found when docker run came back
  execRet,        \* the value execute_agent returned
  execRaised,     \* the exception that left execute_agent, or "none"
  jobRet          \* what execute_agent_job returned after notifying

ctxVars == <<rpc, run_input, ctx_results, ctx_llm_calls, calls, undisturbed,
             callRet, resultsCalls, ended, found, execRet, execRaised,
             jobRet>>

\* The scheduler's record of nested executions.
VARIABLES
  nested,         \* the jobs enqueued, with their parent_execution_id
  response        \* what the last call of the api layer gave back

nestVars == <<nested, response>>

\* The host the service runs on.
VARIABLES
  docker,         \* the containers of the docker daemon, by container name
  storage         \* the directories under AGENT_STORAGE_PATH, by agent id

hostVars == <<docker, storage>>

vars == <<use_containers, issued, queue, job, taken, execCalls, cancelled,
          killSent, wpc, wjob, wdata, valRes, workspace, container,
          execResult, notified, wres, ret, ctxVars, nestVars, hostVars>>

NoJob == [status |-> "none", agent |-> "none", result |-> "none"]
NoRet == [op |-> "none", id |-> 0, status |-> "none", raised |-> FALSE]

\* The ids queue_execution has returned, and the number of its calls.
IssuedIds == {i \in Ids : issued[i] > 0}

RECURSIVE SumOver(_, _)
SumOver(f, S) ==
  IF S = {} THEN 0
  ELSE LET x == CHOOSE y \in S : TRUE IN f[x] + SumOver(f, S \ {x})

Calls == SumOver(issued, Ids)

\* A value of the result dicts the executor returns: the keys that tell
\* results apart, "absent" for a key the dict does not have.
NoResult ==
  [status |-> "none", error |-> "none", exit_code |-> "none",
   aggregate |-> FALSE, results |-> <<>>, llm_calls |-> 0, message_count |-> 0]

NoCall == [op |-> "none", reply |-> "none", raised |-> FALSE, value |-> "none"]
NothingFound == [artifact |-> "none", exit_code |-> "none", stderr |-> "none"]
NoJobRet == [raised |-> FALSE, value |-> NoResult, delivered |-> FALSE]
NoResponse ==
  [op |-> "none", raised |-> "none", execution_id |-> 0, parent |-> 0,
   value |-> "none"]

\* No run is looked at from the inside.
CtxIdle ==
  /\ rpc = "none"
  /\ run_input = [entry |-> TRUE, transcript |-> "ok"]
  /\ ctx_results = <<>>
  /\ ctx_llm_calls = 0
  /\ calls = <<>>
  /\ undisturbed = <<>>
  /\ callRet = NoCall
  /\ resultsCalls = 0
  /\ ended = "none"
  /\ found = NothingFound
  /\ execRet = NoResult
  /\ execRaised = "none"
  /\ jobRet = NoJobRet

NestIdle ==
  /\ nested = <<>>
  /\ response = NoResponse

\* No container, and a storage path nothing was submitted to.
HostIdle ==
  /\ docker = <<>>
  /\ storage = <<>>

PoolInit ==
  /\ issued = [i \in Ids |-> 0]
  /\ queue = <<>>
  /\ job = [i \in Ids |-> NoJob]
  /\ taken = {}
  /\ execCalls = [i \in Ids |-> 0]
  /\ cancelled = [i \in Ids |-> "no"]
  /\ killSent = [i \in Ids |-> FALSE]
  /\ wpc = [w \in Workers |-> "idle"]
  /\ wjob = [w \in Workers |-> 0]
  /\ wdata = [w \in Workers |-> "none"]
  /\ valRes = [w \in Workers |-> "none"]
  /\ workspace = [w \in Workers |-> "none"]
  /\ container = [w \in Workers |-> "none"]
  /\ execResult = [w \in Workers |-> "none"]
  /\ notified = [w \in Workers |-> 0]
  /\ wres = [w \in Workers |-> "none"]
  /\ ret = NoRet

Init ==
  /\ use_containers \in BOOLEAN
  /\ PoolInit
  /\ CtxIdle
  /\ NestIdle
  /\ HostIdle

(* ---------------------------------------------------------------------- *)
(* Scheduler: queue_execution                                              *)
(* ---------------------------------------------------------------------- *)
\* uuid.uuid4(): a value no earlier call has produced.
\* (variant: a generator that may repeat a value)
uuid4_mut(used) == Ids

uuid4(used) == Ids \ used

queue_execution(agent_id) ==
  /\ Calls < MaxJobs
  /\ \E execution_id \in uuid4(IssuedIds) :
       /\ job' = [job EXCEPT ![execution_id] =
                    [status |-> "queued", agent |-> agent_id, result |-> "none"]]
       /\ queue' = Append(queue, execution_id)
       /\ issued' = [issued EXCEPT ![execution_id] = @ + 1]
  /\ ret' = NoRet
  /\ UNCHANGED <<ctxVars, nestVars, use_containers, hostVars, historyVars, cancelVars, workerVars,
                 sandboxVars, runVars>>

(* ---------------------------------------------------------------------- *)
(* Worker pool: start_worker runs rq's Worker.work on the queue            *)
(* ---------------------------------------------------------------------- *)
\* The queue after a worker's dequeue: the pop takes the head off the list.
\* (variant: a read of the head that leaves it on the list)
Dequeued_mut(q) == q

Dequeued(q) == Tail(q)

\* A worker takes the head of the queue and marks the job started (an id
\* whose hash is gone is dropped); a new run of the job function begins.
Dequeue(w) ==
  /\ wpc[w] = "idle"
  /\ queue # <<>>
  /\ Cardinality(taken \cup {Head(queue)}) <= MaxRuns
  /\ LET id == Head(queue) IN
       /\ queue' = Dequeued(queue)
       /\ taken' = taken \cup {id}
       /\ IF job[id].status = "none"
            THEN UNCHANGED <<job, wpc, wjob, wdata>>
            ELSE /\ job' = [job EXCEPT ![id].status = "started"]
                 /\ wpc' = [wpc EXCEPT ![w] = "start"]
                 /\ wjob' = [wjob EXCEPT ![w] = id]
                 /\ wdata' = [wdata EXCEPT ![w] = job[id].agent]
  /\ ret' = NoRet
  /\ UNCHANGED <<ctxVars, nestVars, use_containers, hostVars, issued, execCalls, cancelVars,
                 sandboxVars, runVars>>

\* The worker is done with its job: the run's locals are gone.
Idle(w) ==
  /\ wpc' = [wpc EXCEPT ![w] = "idle"]
  /\ wjob' = [wjob EXCEPT ![w] = 0]
  /\ wdata' = [wdata EXCEPT ![w] = "none"]
  /\ valRes' = [valRes EXCEPT ![w] = "none"]
  /\ workspace' = [workspace EXCEPT ![w] = "none"]
  /\ container' = [container EXCEPT ![w] = "none"]
  /\ execResult' = [execResult EXCEPT ![w] = "none"]
  /\ notified' = [notified EXCEPT ![w] = 0]
  /\ wres' = [wres EXCEPT ![w] = "none"]

(* ---------------------------------------------------------------------- *)
(* Sandbox executor: ContainerExecutor                                     *)
(* ---------------------------------------------------------------------- *)
\* The finally clause of _execute_in_container: shutil.rmtree(temp_dir),
\* whose failure is logged and swallowed.
Finally(ws, w, rmtree_ok) ==
  [ws EXCEPT ![w] = IF rmtree_ok THEN "removed" ELSE "exists"]

\* What _execute_in_container returns once docker run has exited,
\* from the state of output.json.
ContainerOutcome(artifact) ==
  CASE artifact = "valid"     -> "results"
    [] artifact = "malformed" -> "err_exception"
    [] artifact = "absent"    -> "err_nooutput"

(* ---------------------------------------------------------------------- *)
(* The job function: execute_agent_job                                     *)
(* ---------------------------------------------------------------------- *)
\* Whether execute_agent_job goes on to the executor after validation.
\* (variant: the validation result is ignored)
PassesValidation_mut(validation_result) == TRUE

PassesValidation(validation_result) == validation_result.valid

\* From the start of execute_agent_job to the point where it blocks on the
\* container, or to its return value when it does not get that far.
\* transcript_ok: every entry of job_data["messages"] has role and content.
execute_agent_job(w) ==
  /\ wpc[w] = "start"
  /\ \E bundle \in Bundles, transcript_ok \in BOOLEAN :
     LET id == wjob[w]
         validation_result == validate_agent_code(bundle)
     IN
     IF ~bundle.exists
       THEN \* FileNotFoundError: the except clause notifies and returns
            /\ wres' = [wres EXCEPT ![w] = "err_job"]
            /\ notified' = [notified EXCEPT ![w] = @ + 1]
            /\ wpc' = [wpc EXCEPT ![w] = "rq"]
            /\ UNCHANGED <<valRes, execCalls, execResult, sandboxVars>>
       ELSE
         /\ valRes' = [valRes EXCEPT ![w] =
                         IF validation_result.valid THEN "valid" ELSE "invalid"]
         /\ IF ~PassesValidation(validation_result)
              THEN /\ wres' = [wres EXCEPT ![w] = "err_validation"]
                   /\ wpc' = [wpc EXCEPT ![w] = "rq"]
                   /\ UNCHANGED <<execCalls, execResult, notified, sandboxVars>>
              ELSE
                \* execute_agent(agent_path, context_data)
                /\ execCalls' = [execCalls EXCEPT ![id] = @ + 1]
                /\ IF ~bundle.entry
                     THEN /\ execResult' = [execResult EXCEPT ![w] = "err_entry"]
                          /\ wpc' = [wpc EXCEPT ![w] = "returned"]
                          /\ UNCHANGED <<wres, notified, sandboxVars>>
                     ELSE IF ~transcript_ok
                       THEN \* Message.from_dict raises KeyError out of
                            \* execute_agent: the except clause of the job
                            /\ execResult' = [execResult EXCEPT ![w] = "raised"]
                            /\ wres' = [wres EXCEPT ![w] = "err_job"]
                            /\ notified' = [notified EXCEPT ![w] = @ + 1]
                            /\ wpc' = [wpc EXCEPT ![w] = "rq"]
                            /\ UNCHANGED sandboxVars
                     ELSE IF use_containers
                       THEN \* _execute_in_container up to subprocess.run
                         \E prep \in {"ok", "mkdtemp_raises", "setup_raises"} :
                           CASE prep = "ok" ->
                                  /\ workspace' = [workspace EXCEPT ![w] = "exists"]
                                  /\ container' = [container EXCEPT ![w] = "running"]
                                  /\ wpc' = [wpc EXCEPT ![w] = "wait"]
                                  /\ UNCHANGED <<wres, execResult, notified>>
                             [] prep = "mkdtemp_raises" ->
                                  \* raised before the try: out of execute_agent
                                  /\ execResult' = [execResult EXCEPT ![w] = "raised"]
                                  /\ wres' = [wres EXCEPT ![w] = "err_job"]
                                  /\ notified' = [notified EXCEPT ![w] = @ + 1]
                                  /\ wpc' = [wpc EXCEPT ![w] = "rq"]
                                  /\ UNCHANGED sandboxVars
                             [] prep = "setup_raises" ->
                                  \E rmtree_ok \in BOOLEAN :
                                    /\ workspace' = Finally(workspace, w, rmtree_ok)
                                    /\ execResult' = [execResult EXCEPT ![w] = "err_exception"]
                                    /\ wpc' = [wpc EXCEPT ![w] = "returned"]
                                    /\ UNCHANGED <<wres, notified, container>>
                       ELSE \* _execute_in_process
                         \E outcome \in {"results", "err_exception"} :
                           /\ execResult' = [execResult EXCEPT ![w] = outcome]
                           /\ wpc' = [wpc EXCEPT ![w] = "returned"]
                           /\ UNCHANGED <<wres, notified, sandboxVars>>
  /\ ret' = NoRet
  /\ UNCHANGED <<ctxVars, nestVars, use_containers, hostVars, schedVars, taken, cancelVars, wjob, wdata>>

\* The agent process inside the container ends (Agent.run returned or
\* raised, or the process was killed).
container_exit(w) ==
  /\ container[w] = "running"
  /\ container' = [container EXCEPT ![w] = "exited"]
  /\ ret' = NoRet
  /\ UNCHANGED <<ctxVars, nestVars, use_containers, hostVars, schedVars, historyVars, cancelVars,
                 workerVars, workspace, runVars>>

\* subprocess.run returns because docker run exited.
subprocess_returns(w) ==
  /\ wpc[w] = "wait"
  /\ container[w] = "exited"
  /\ \E artifact \in {"valid", "malformed", "absent"}, rmtree_ok \in BOOLEAN :
       /\ execResult' = [execResult EXCEPT ![w] = ContainerOutcome(artifact)]
       /\ workspace' = Finally(workspace, w, rmtree_ok)
  /\ wpc' = [wpc EXCEPT ![w] = "returned"]
  /\ ret' = NoRet
  /\ UNCHANGED <<ctxVars, nestVars, use_containers, hostVars, schedVars, historyVars, cancelVars,
                 wjob, wdata, container, valRes, notified, wres>>

\* subprocess.run raises TimeoutExpired after container_timeout seconds:
\* it has killed the docker run client process, nothing else.
subprocess_timeout(w) ==
  /\ wpc[w] = "wait"
  /\ container[w] = "running"
  /\ \E rmtree_ok \in BOOLEAN :
       workspace' = Finally(workspace, w, rmtree_ok)
  /\ execResult' = [execResult EXCEPT ![w] = "err_timeout"]
  /\ wpc' = [wpc EXCEPT ![w] = "returned"]
  /\ ret' = NoRet
  /\ UNCHANGED <<ctxVars, nestVars, use_containers, hostVars, schedVars, historyVars, cancelVars,
                 wjob, wdata, container, valRes, notified, wres>>

\* The completion callback of execute_agent_job: the post's failure is
\* caught and logged, and execution_results is returned.
\* (variant: the return sits inside the try, after the post)
CallbackReturn_mut(execution_results, delivered) ==
  IF delivered THEN execution_results ELSE NoResult

CallbackReturn(execution_results, delivered) == execution_results

\* execute_agent has returned: post the results to the callback url (a
\* failure of the post is logged) and return them.
send_callback(w) ==
  /\ wpc[w] = "returned"
  /\ notified' = [notified EXCEPT ![w] = @ + 1]
  /\ \E delivered \in BOOLEAN :
       wres' = [wres EXCEPT ![w] = CallbackReturn(execResult[w], delivered)]
  /\ wpc' = [wpc EXCEPT ![w] = "rq"]
  /\ ret' = NoRet
  /\ UNCHANGED <<ctxVars, nestVars, use_containers, hostVars, schedVars, historyVars, cancelVars,
                 wjob, wdata, sandboxVars, valRes, execResult>>

\* The job function returned: the worker saves the job's hash as finished
\* with the return value as its result, whether or not the hash is still
\* there (a cancel may have deleted it meanwhile).
handle_job_success(w) ==
  /\ wpc[w] = "rq"
  /\ job' = [job EXCEPT ![wjob[w]] =
               [status |-> "finished", agent |-> wdata[w], result |-> wres[w]]]
  /\ Idle(w)
  /\ ret' = NoRet
  /\ UNCHANGED <<ctxVars, nestVars, use_containers, hostVars, issued, queue, historyVars, cancelVars>>

\* The work horse running the job function dies: the worker saves the job
\* as failed.
work_horse_dies(w) ==
  /\ wpc[w] # "idle"
  /\ job' = [job EXCEPT ![wjob[w]] =
               [status |-> "failed", agent |-> wdata[w], result |-> "none"]]
  /\ Idle(w)
  /\ ret' = NoRet
  /\ UNCHANGED <<ctxVars, nestVars, use_containers, hostVars, issued, queue, historyVars, cancelVars>>

\* A finished or failed job's hash expires (result_ttl).
expire(id) ==
  /\ job[id].status \in {"finished", "failed"}
  /\ job' = [job EXCEPT ![id] = NoJob]
  /\ ret' = NoRet
  /\ UNCHANGED <<ctxVars, nestVars, use_containers, hostVars, issued, queue, historyVars, cancelVars,
                 workerVars, sandboxVars, runVars>>

(* ---------------------------------------------------------------------- *)
(* Scheduler: get_execution_status and cancel_execution                    *)
(* ---------------------------------------------------------------------- *)
\* The value get_execution_status returns; Job.fetch raises for an id that
\* has no hash, and the except clause turns that into an error value.
\* (variant: without the except clause the exception leaves the call)
StatusResult_mut(id) ==
  IF job[id].status = "none"
    THEN [op |-> "status", id |-> id, status |-> "none", raised |-> TRUE]
    ELSE [op |-> "status", id |-> id, status |-> job[id].status, raised |-> FALSE]

StatusResult(id) ==
  IF job[id].status = "none"
    THEN [op |-> "status", id |-> id, status |-> "error", raised |-> FALSE]
    ELSE [op |-> "status", id |-> id, status |-> job[id].status, raised |-> FALSE]

get_execution_status(id) ==
  /\ ret' = StatusResult(id)
  /\ UNCHANGED <<ctxVars, nestVars, use_containers, hostVars, schedVars, historyVars, cancelVars,
                 workerVars, sandboxVars, runVars>>

\* The statuses in which cancel_execution cancels the job.
\* (variant: terminal jobs are cancelled too)
Cancellable_mut == {"queued", "started", "finished", "failed"}

Cancellable == {"queued", "started"}

\* job.cancel(): the id is taken off the queue.
\* (variant: the id is left on the queue)
JobCancel_mut(q, id) == q

JobCancel(q, id) == SelectSeq(q, LAMBDA x : x # id)

\* docker kill agent-<id>: the running container of that execution is
\* killed.
DockerKill(c, id) ==
  [w \in Workers |->
     IF wjob[w] = id /\ c[w] = "running" THEN "exited" ELSE c[w]]

CancelRet(id, status) ==
  [op |-> "cancel", id |-> id, status |-> status, raised |-> FALSE]

cancel_execution(id) ==
  /\ IF job[id].status = "none"
       THEN \* Job.fetch raises: the except clause returns an error value
            /\ ret' = CancelRet(id, "error")
            /\ UNCHANGED <<queue, job, container, cancelVars>>
       ELSE IF job[id].status \in Cancellable
         THEN /\ queue' = JobCancel(queue, id)
              /\ job' = [job EXCEPT ![id] = NoJob]
              /\ container' = DockerKill(container, id)
              /\ killSent' = [killSent EXCEPT ![id] = TRUE]
              /\ cancelled' = [cancelled EXCEPT ![id] = job[id].status]
              /\ ret' = CancelRet(id, "cancelled")
         ELSE /\ ret' = CancelRet(id, job[id].status)
              /\ UNCHANGED <<queue, job, container, cancelVars>>
  /\ UNCHANGED <<ctxVars, nestVars, use_containers, hostVars, issued, historyVars, workerVars, workspace, runVars>>

(* ---------------------------------------------------------------------- *)
(* The runtime context: AgentContext                                       *)
(* ---------------------------------------------------------------------- *)
\* the number of context calls the agent code makes in one run
MaxCalls == 3

\* How a request to the callback url can end: a JSON body, or one of the
\* failures of the transport or of the remote side.
Replies == {"json", "conn_error", "timeout", "non_json"}

\* A message event as send_message records it; message_id is the
\* Message's uuid4.
MessageEvent(message_id) == [type |-> "message", message_id |-> message_id]
OtherEvent(type) == [type |-> type, message_id |-> 0]

\* send_message: the event is appended before the relay is attempted, and
\* the relay's failure is caught and logged.
\* (variant: the event is appended after the relay, inside the try)
SendMessageLog_mut(log, message_id, relay_ok) ==
  IF relay_ok THEN Append(log, MessageEvent(message_id)) ELSE log

SendMessageLog(log, message_id, relay_ok) ==
  Append(log, MessageEvent(message_id))

\* invoke_agent and invoke_llm: the event is appended when the response
\* parsed as JSON; everything else lands in the except clause.
InvokeLog(log, type, reply) ==
  IF reply = "json" THEN Append(log, OtherEvent(type)) ELSE log

\* What invoke_agent and invoke_llm give back to the agent code.
\* (variant: response.json() sits outside the try)
InvokeReturn_mut(op, reply) ==
  [op |-> op, reply |-> reply, raised |-> reply = "non_json",
   value |-> IF reply = "json" THEN "result" ELSE "error"]

InvokeReturn(op, reply) ==
  [op |-> op, reply |-> reply, raised |-> FALSE,
   value |-> IF reply = "json" THEN "result" ELSE "error"]

IsMessage(e) == e.type = "message"

\* get_execution_results: the event log and the stats.
get_execution_results(log, llm_calls) ==
  [status |-> "absent", error |-> "absent", exit_code |-> "absent",
   aggregate |-> TRUE, results |-> log, llm_calls |-> llm_calls,
   message_count |-> Len(SelectSeq(log, IsMessage))]

\* The error dicts of the executor: status is "error", error is the form
\* of the message, exit_code is there in one of them only.
ErrorResult(error, exit_code) ==
  [status |-> "error", error |-> error, exit_code |-> exit_code,
   aggregate |-> FALSE, results |-> <<>>, llm_calls |-> 0, message_count |-> 0]

EntryResult == ErrorResult("entry_not_found", "absent")
TimeoutResult == ErrorResult("timed_out", "absent")

\* What _execute_in_container returns when subprocess.run came back, from
\* output.json, the exit code and stderr; dumped is what the script wrote.
ContainerResult(artifact, exit_code, stderr, dumped) ==
  CASE artifact = "valid"     -> dumped
    [] artifact = "malformed" -> ErrorResult("container_error", "absent")
    [] artifact = "absent"    ->
         ErrorResult(IF stderr = "text" THEN "stderr" ELSE "no_output", exit_code)

(* ---------------------------------------------------------------------- *)
(* One run, from execute_agent to the return of execute_agent_job          *)
(* ---------------------------------------------------------------------- *)
RunInputs ==
  [entry : BOOLEAN, transcript : {"ok", "no_role", "no_content"}]

RunInit ==
  /\ use_containers \in BOOLEAN
  /\ PoolInit
  /\ NestIdle
  /\ HostIdle
  /\ rpc = "init"
  /\ run_input \in RunInputs
  /\ ctx_results = <<>>
  /\ ctx_llm_calls = 0
  /\ calls = <<>>
  /\ undisturbed = <<>>
  /\ callRet = NoCall
  /\ resultsCalls = 0
  /\ ended = "none"
  /\ found = NothingFound
  /\ execRet = NoResult
  /\ execRaised = "none"
  /\ jobRet = NoJobRet

\* execute_agent up to the point where the agent code runs.
execute_agent ==
  /\ rpc = "init"
  /\ IF ~run_input.entry
       THEN /\ execRet' = EntryResult
            /\ rpc' = "executed"
            /\ UNCHANGED <<execRaised, ended>>
       ELSE IF run_input.transcript # "ok"
         THEN \* Message.from_dict: data["role"], data["content"]
              /\ execRaised' = "KeyError"
              /\ rpc' = "executed"
              /\ UNCHANGED <<execRet, ended>>
         ELSE IF use_containers
           THEN \E prep \in {"ok", "mkdtemp_raises", "setup_raises", "launch_fails"} :
                  CASE prep = "ok" ->
                         /\ rpc' = "running"
                         /\ UNCHANGED <<execRet, execRaised, ended>>
                    [] prep = "mkdtemp_raises" ->
                         /\ execRaised' = "OSError"
                         /\ rpc' = "executed"
                         /\ UNCHANGED <<execRet, ended>>
                    [] prep = "setup_raises" ->
                         /\ execRet' = ErrorResult("container_error", "absent")
                         /\ rpc' = "executed"
                         /\ UNCHANGED <<execRaised, ended>>
                    [] prep = "launch_fails" ->
                         /\ ended' = "not_launched"
                         /\ rpc' = "ended"
                         /\ UNCHANGED <<execRet, execRaised>>
           ELSE /\ rpc' = "running"
                /\ UNCHANGED <<execRet, execRaised, ended>>
  /\ UNCHANGED <<use_containers, hostVars, poolVars, nestVars, run_input, ctx_results,
                 ctx_llm_calls, calls, undisturbed, callRet, resultsCalls,
                 found, jobRet>>

CallMade(op) == [op |-> op, message_id |-> Len(calls) + 1]

send_message(relay_ok) ==
  /\ rpc = "running"
  /\ Len(calls) < MaxCalls
  /\ LET message_id == Len(calls) + 1 IN
       /\ ctx_results' = SendMessageLog(ctx_results, message_id, relay_ok)
       /\ undisturbed' = SendMessageLog(undisturbed, message_id, TRUE)
  /\ calls' = Append(calls, CallMade("send_message"))
  /\ callRet' = [op |-> "send_message",
                 reply |-> IF relay_ok THEN "json" ELSE "conn_error",
                 raised |-> FALSE, value |-> "none"]
  /\ UNCHANGED <<use_containers, hostVars, poolVars, nestVars, rpc, run_input,
                 ctx_llm_calls, resultsCalls, ended, found, execRet,
                 execRaised, jobRet>>

invoke_agent(reply) ==
  /\ rpc = "running"
  /\ Len(calls) < MaxCalls
  /\ ctx_results' = InvokeLog(ctx_results, "agent_invocation", reply)
  /\ undisturbed' = InvokeLog(undisturbed, "agent_invocation", reply)
  /\ calls' = Append(calls, CallMade("invoke_agent"))
  /\ callRet' = InvokeReturn("invoke_agent", reply)
  /\ UNCHANGED <<use_containers, hostVars, poolVars, nestVars, rpc, run_input,
                 ctx_llm_calls, resultsCalls, ended, found, execRet,
                 execRaised, jobRet>>

invoke_llm(reply) ==
  /\ rpc = "running"
  /\ Len(calls) < MaxCalls
  /\ ctx_llm_calls' = ctx_llm_calls + 1
  /\ ctx_results' = InvokeLog(ctx_results, "llm_call", reply)
  /\ undisturbed' = InvokeLog(undisturbed, "llm_call", reply)
  /\ calls' = Append(calls, CallMade("invoke_llm"))
  /\ callRet' = InvokeReturn("invoke_llm", reply)
  /\ UNCHANGED <<use_containers, hostVars, poolVars, nestVars, rpc, run_input,
                 resultsCalls, ended, found, execRet, execRaised, jobRet>>

\* Agent.run ends: it returns, raises an exception, or leaves through
\* sys.exit (SystemExit).
entry_point_ends(how) ==
  /\ rpc = "running"
  /\ ended' = how
  /\ rpc' = "ended"
  /\ UNCHANGED <<use_containers, hostVars, poolVars, nestVars, run_input, ctx_results,
                 ctx_llm_calls, calls, undisturbed, callRet, resultsCalls,
                 found, execRet, execRaised, jobRet>>

\* subprocess.run raises TimeoutExpired while the agent code is running.
run_timeout ==
  /\ use_containers
  /\ rpc = "running"
  /\ execRet' = TimeoutResult
  /\ rpc' = "executed"
  /\ UNCHANGED <<use_containers, hostVars, poolVars, nestVars, run_input, ctx_results,
                 ctx_llm_calls, calls, undisturbed, callRet, resultsCalls,
                 ended, found, execRaised, jobRet>>

\* What the workspace can hold and how docker run can exit, given how the
\* script in the container ended.
Artifacts(how) ==
  IF how = "returns" THEN {"valid", "malformed", "absent"} ELSE {"absent"}

ExitCodes(how) ==
  IF how \in {"raises", "not_launched"} THEN {"nonzero"} ELSE {"zero", "nonzero"}

\* The rest of execute_agent once the entry point has ended: in a
\* container the script dumps get_execution_results() after agent.run
\* returned and the executor reads output.json; in process the executor
\* calls get_execution_results() after agent.run returned.
execute_returns ==
  /\ rpc = "ended"
  /\ resultsCalls' = IF ended = "returns" THEN resultsCalls + 1 ELSE resultsCalls
  /\ IF use_containers
       THEN \E artifact \in Artifacts(ended), exit_code \in ExitCodes(ended),
               stderr \in {"empty", "text"} :
              /\ found' = [artifact |-> artifact, exit_code |-> exit_code,
                           stderr |-> stderr]
              /\ execRet' = ContainerResult(artifact, exit_code, stderr,
                              get_execution_results(ctx_results, ctx_llm_calls))
              /\ UNCHANGED execRaised
       ELSE /\ CASE ended = "returns" ->
                      /\ execRet' = get_execution_results(ctx_results, ctx_llm_calls)
                      /\ UNCHANGED execRaised
                 [] ended = "raises" ->
                      /\ execRet' = ErrorResult("execution_error", "absent")
                      /\ UNCHANGED execRaised
                 [] ended = "exits" ->
                      \* SystemExit is not an Exception: no except clause
                      /\ execRaised' = "SystemExit"
                      /\ UNCHANGED execRet
            /\ UNCHANGED found
  /\ rpc' = "executed"
  /\ UNCHANGED <<use_containers, hostVars, poolVars, nestVars, run_input, ctx_results,
                 ctx_llm_calls, calls, undisturbed, callRet, ended, jobRet>>

\* execute_agent_job after execute_agent: the completion callback and the
\* return value; an Exception out of execute_agent is turned into the
\* job's error result.
notify_complete(delivered) ==
  /\ rpc = "executed"
  /\ jobRet' =
       CASE execRaised = "none" ->
              [raised |-> FALSE, value |-> CallbackReturn(execRet, delivered),
               delivered |-> delivered]
         [] execRaised = "SystemExit" ->
              [raised |-> TRUE, value |-> NoResult, delivered |-> FALSE]
         [] OTHER ->
              [raised |-> FALSE, value |-> ErrorResult("job_error", "absent"),
               delivered |-> delivered]
  /\ rpc' = "done"
  /\ UNCHANGED <<use_containers, hostVars, poolVars, nestVars, run_input, ctx_results,
                 ctx_llm_calls, calls, undisturbed, callRet, resultsCalls,
                 ended, found, execRet, execRaised>>

RunNext ==
  \/ execute_agent
  \/ \E relay_ok \in BOOLEAN : send_message(relay_ok)
  \/ \E reply \in Replies : invoke_agent(reply)
  \/ \E reply \in Replies : invoke_llm(reply)
  \/ \E how \in {"returns", "raises", "exits"} : entry_point_ends(how)
  \/ run_timeout
  \/ execute_returns
  \/ \E delivered \in BOOLEAN : notify_complete(delivered)

RunSpec == RunInit /\ [][RunNext]_vars

(* ---------------------------------------------------------------------- *)
(* Nested executions: queue_execution with a parent, and the api layer     *)
(* ---------------------------------------------------------------------- *)
\* the number of executions enqueued with or without a parent
MaxNested == 3

\* The keyword parameters of AgentExecutorWorker.queue_execution, those
\* without a default, and the keys of execution_params the routes pass
\* as **execution_params.
QueueExecutionParams ==
  {"agent_id", "user_id", "messages", "env_vars", "user_vars",
   "parent_execution_id", "api_key"}

QueueExecutionRequired == {"agent_id", "user_id", "messages"}

RouteExecutionParams ==
  {"execution_id", "agent_id", "user_id", "input", "user_vars",
   "parent_execution_id"}

\* A call f(**kwargs) binds when every keyword is a parameter and every
\* parameter without a default is given; otherwise it raises TypeError.
Binds(kwargs, params, required) ==
  kwargs \subseteq params /\ required \subseteq kwargs

\* The methods AgentExecutorWorker defines; a call of any other name
\* raises AttributeError.
WorkerMethods ==
  {"start_worker", "queue_execution", "execute_agent_job",
   "get_execution_status", "cancel_execution"}

ApiInit ==
  /\ use_containers = TRUE
  /\ PoolInit
  /\ CtxIdle
  /\ HostIdle
  /\ nested = <<>>
  /\ response = NoResponse

\* job_data of a new job: parent_execution_id is stored as it was given.
JobData(parent_execution_id) ==
  [parent |-> parent_execution_id, status |-> "queued"]

\* queue_execution(..., parent_execution_id): the job is enqueued under a
\* fresh execution id (here the next index) whatever the parent is; 0
\* stands for None.
queue_execution_child(parent_execution_id) ==
  /\ Len(nested) < MaxNested
  /\ parent_execution_id \in 0..Len(nested)
  /\ nested' = Append(nested, JobData(parent_execution_id))
  /\ response' = [op |-> "queue_execution", raised |-> "none",
                  execution_id |-> Len(nested) + 1,
                  parent |-> parent_execution_id, value |-> "none"]
  /\ UNCHANGED <<use_containers, hostVars, poolVars, ctxVars>>

\* The worker pool moves a job on: queued to started, started to finished
\* or failed.
job_progress(id, to) ==
  /\ id \in 1..Len(nested)
  /\ \/ nested[id].status = "queued" /\ to = "started"
     \/ nested[id].status = "started" /\ to \in {"finished", "failed"}
  /\ nested' = [nested EXCEPT ![id].status = to]
  /\ UNCHANGED <<use_containers, hostVars, poolVars, ctxVars, response>>

\* POST /invoke, as AgentContext.invoke_agent of the running execution
\* parent_execution_id sends it: the route calls
\* worker.queue_execution(**execution_params) and then
\* worker.get_execution_result(execution_id, timeout=30).
route_invoke(parent_execution_id) ==
  /\ parent_execution_id \in 1..Len(nested)
  /\ nested[parent_execution_id].status = "started"
  /\ IF ~Binds(RouteExecutionParams, QueueExecutionParams, QueueExecutionRequired)
       THEN /\ response' = [op |-> "invoke", raised |-> "TypeError",
                            execution_id |-> 0,
                            parent |-> parent_execution_id, value |-> "none"]
            /\ UNCHANGED nested
       ELSE /\ Len(nested) < MaxNested
            /\ nested' = Append(nested, JobData(parent_execution_id))
            /\ "get_execution_result" \notin WorkerMethods
            /\ response' = [op |-> "invoke", raised |-> "AttributeError",
                            execution_id |-> Len(nested) + 1,
                            parent |-> parent_execution_id, value |-> "none"]
  /\ UNCHANGED <<use_containers, hostVars, poolVars, ctxVars>>

\* The uuid4 the routes draw for themselves (execution_id of
\* execution_params): an id no job is stored under, queue_execution
\* draws its own.
RouteUuid == MaxNested + 1

\* POST /execute: the route draws execution_id, calls
\* worker.queue_execution(**execution_params) and answers with its own
\* execution_id; parent_execution_id is data.get('parent_execution_id').
route_execute(parent_execution_id) ==
  /\ parent_execution_id \in 0..Len(nested)
  /\ IF ~Binds(RouteExecutionParams, QueueExecutionParams, QueueExecutionRequired)
       THEN /\ response' = [op |-> "execute", raised |-> "TypeError",
                            execution_id |-> 0,
                            parent |-> parent_execution_id, value |-> "none"]
            /\ UNCHANGED nested
       ELSE /\ Len(nested) < MaxNested
            /\ nested' = Append(nested, JobData(parent_execution_id))
            /\ response' = [op |-> "execute", raised |-> "none",
                            execution_id |-> RouteUuid,
                            parent |-> parent_execution_id, value |-> "queued"]
  /\ UNCHANGED <<use_containers, hostVars, poolVars, ctxVars>>

\* GET /execution/<execution_id>: the route calls
\* worker.get_execution_result(execution_id).
route_get_execution(execution_id) ==
  /\ execution_id \in 1..Len(nested)
  /\ "get_execution_result" \notin WorkerMethods
  /\ response' = [op |-> "get_execution", raised |-> "AttributeError",
                  execution_id |-> execution_id, parent |-> 0,
                  value |-> "none"]
  /\ UNCHANGED <<use_containers, hostVars, poolVars, ctxVars, nested>>

ApiNext ==
  \/ \E p \in 0..MaxNested : queue_execution_child(p)
  \/ \E id \in 1..MaxNested, to \in {"started", "finished", "failed"} :
       job_progress(id, to)
  \/ \E p \in 1..MaxNested : route_invoke(p)
  \/ \E p \in 0..MaxNested : route_execute(p)
  \/ \E id \in 1..MaxNested : route_get_execution(id)

ApiSpec == ApiInit /\ [][ApiNext]_vars

\* The chain of parents of a job, nearest first.
RECURSIVE Chain(_, _)
Chain(id, fuel) ==
  IF fuel = 0 \/ nested[id].parent = 0 THEN <<>>
  ELSE <<nested[id].parent>> \o Chain(nested[id].parent, fuel - 1)

Depth(id) == Len(Chain(id, Len(nested)))

(* ---------------------------------------------------------------------- *)
(* Container names: docker run --name and docker kill                      *)
(* ---------------------------------------------------------------------- *)
\* The text of an execution id, str(uuid.uuid4()), cut where the code
\* cuts it: head is its first ten characters, tail the remaining ones.
UuidHeads == {"3f2a9c1e-4", "7b10d5aa-4"}
UuidTails == {"b7d-4a1c-9e2f-0c5d6e7f8a9b", "c1e-4f6a-8b3d-1a2b3c4d5e6f"}
Uuids == [head : UuidHeads, tail : UuidTails]

\* container_name = f"agent-{execution_id[:10]}" of the executor
container_name(execution_id) ==
  [prefix |-> "agent-", chars |-> execution_id.head]

\* container_id = f"agent-{execution_id[:10]}" of cancel_execution
container_id(execution_id) ==
  [prefix |-> "agent-", chars |-> execution_id.head]

ContainerNames == {container_name(u) : u \in Uuids}
NoContainer == [head |-> "none", tail |-> "none"]

NameRet(op, id, status, signalled) ==
  [op |-> op, id |-> id, status |-> status, raised |-> FALSE,
   signalled |-> signalled]

NameInit ==
  /\ use_containers = TRUE
  /\ issued = [u \in Uuids |-> 0]
  /\ job = [u \in Uuids |-> NoJob]
  /\ docker = [n \in ContainerNames |-> NoContainer]
  /\ ret = NameRet("none", NoContainer, "none", NoContainer)
  /\ queue = <<>>
  /\ taken = {}
  /\ execCalls = [i \in Ids |-> 0]
  /\ cancelled = [i \in Ids |-> "no"]
  /\ killSent = [i \in Ids |-> FALSE]
  /\ wpc = [w \in Workers |-> "idle"]
  /\ wjob = [w \in Workers |-> 0]
  /\ wdata = [w \in Workers |-> "none"]
  /\ valRes = [w \in Workers |-> "none"]
  /\ workspace = [w \in Workers |-> "none"]
  /\ container = [w \in Workers |-> "none"]
  /\ execResult = [w \in Workers |-> "none"]
  /\ notified = [w \in Workers |-> 0]
  /\ wres = [w \in Workers |-> "none"]
  /\ storage = <<>>
  /\ CtxIdle
  /\ NestIdle

nameFrame ==
  <<use_containers, queue, taken, execCalls, cancelled, killSent, wpc, wjob,
    wdata, valRes, workspace, container, execResult, notified, wres, storage,
    ctxVars, nestVars>>

\* queue_execution: the job is stored under a uuid4 no earlier call drew.
queue_execution_uuid(execution_id) ==
  /\ issued[execution_id] = 0
  /\ issued' = [issued EXCEPT ![execution_id] = 1]
  /\ job' = [job EXCEPT ![execution_id] =
               [status |-> "queued", agent |-> "echo", result |-> "none"]]
  /\ UNCHANGED <<docker, ret, nameFrame>>

\* A worker takes the job (RQ marks it started) and _execute_in_container
\* runs docker run --name container_name: the daemon refuses a name a
\* running container has.
docker_run(execution_id) ==
  /\ job[execution_id].status = "queued"
  /\ job' = [job EXCEPT ![execution_id].status = "started"]
  /\ docker' = IF docker[container_name(execution_id)] = NoContainer
                 THEN [docker EXCEPT ![container_name(execution_id)] =
                         execution_id]
                 ELSE docker
  /\ UNCHANGED <<issued, ret, nameFrame>>

\* The container of an execution exits (--rm removes it) and the worker
\* saves the job as finished.
container_exits(execution_id) ==
  /\ job[execution_id].status = "started"
  /\ docker[container_name(execution_id)] = execution_id
  /\ docker' = [docker EXCEPT ![container_name(execution_id)] = NoContainer]
  /\ job' = [job EXCEPT ![execution_id] =
               [status |-> "finished", agent |-> "echo", result |-> "results"]]
  /\ UNCHANGED <<issued, ret, nameFrame>>

\* subprocess.run comes back and there is no output.json: the daemon
\* refused the name, or the container was killed.
run_without_output(execution_id) ==
  /\ job[execution_id].status = "started"
  /\ docker[container_name(execution_id)] # execution_id
  /\ job' = [job EXCEPT ![execution_id] =
               [status |-> "finished", agent |-> "echo",
                result |-> "err_no_output"]]
  /\ UNCHANGED <<issued, docker, ret, nameFrame>>

\* cancel_execution: for a queued or started job, job.cancel(),
\* job.delete() and docker kill container_id; signalled is the execution
\* whose container the daemon killed.
cancel_execution_named(execution_id) ==
  /\ IF job[execution_id].status = "none"
       THEN /\ ret' = NameRet("cancel", execution_id, "error", NoContainer)
            /\ UNCHANGED <<job, docker>>
       ELSE IF job[execution_id].status \in Cancellable
         THEN /\ job' = [job EXCEPT ![execution_id] = NoJob]
              /\ docker' = [docker EXCEPT ![container_id(execution_id)] =
                              NoContainer]
              /\ ret' = NameRet("cancel", execution_id, "cancelled",
                                docker[container_id(execution_id)])
         ELSE /\ ret' = NameRet("cancel", execution_id,
                                job[execution_id].status, NoContainer)
              /\ UNCHANGED <<job, docker>>
  /\ UNCHANGED <<issued, nameFrame>>

NameNext ==
  \/ \E u \in Uuids : queue_execution_uuid(u)
  \/ \E u \in Uuids : docker_run(u)
  \/ \E u \in Uuids : container_exits(u)
  \/ \E u \in Uuids : run_without_output(u)
  \/ \E u \in Uuids : cancel_execution_named(u)

NameSpec == NameInit /\ [][NameNext]_vars

(* ---------------------------------------------------------------------- *)
(* The validator of app/utils/security, file by file                       *)
(* ---------------------------------------------------------------------- *)
\* the number of .py files of a stored bundle
MaxFiles == 2
\* the number of lines of requirements.txt
MaxLines == 2

\* Dotted names are sequences of their components: "os.path" is
\* <<"os", "path">>.  node.module of `from . import x` is None, a name
\* without components.
None == <<>>

RESTRICTED_MODULES ==
  {<<"subprocess">>, <<"os", "system">>, <<"os", "spawn">>, <<"os", "popen">>,
   <<"pty">>, <<"shutil">>, <<"socket">>, <<"ctypes">>, <<"cffi">>,
   <<"exec">>, <<"eval">>, <<"compile">>, <<"pickle">>, <<"shelve">>,
   <<"marshal">>, <<"multiprocessing", "Process">>, <<"threading", "Thread">>,
   <<"importlib">>, <<"imp">>, <<"__import__">>}

RESTRICTED_OPERATIONS ==
  {"eval", "exec", "compile", "globals", "__import__", "open", "write",
   "chmod", "chown", "link", "symlink", "unlink", "system", "spawn", "popen",
   "run", "call", "check_call", "check_output"}

restricted_packages ==
  {"cryptography", "pycrypto", "pyOpenSSL", "django", "flask", "tornado",
   "fastapi", "tensorflow", "torch", "pytorch", "boto3", "google-cloud",
   "azure", "ansible", "fabric", "paramiko", "scrapy", "selenium"}

\* module.startswith(f"{restricted}."): restricted is a proper prefix of
\* the dotted name, cut at a dot.
StartsWithDotted(module, restricted) ==
  /\ Len(restricted) < Len(module)
  /\ SubSeq(module, 1, Len(restricted)) = restricted

\* module in RESTRICTED_MODULES or any(module.startswith(f"{r}.") ...)
IsRestrictedModule(module) ==
  \/ module \in RESTRICTED_MODULES
  \/ \E restricted \in RESTRICTED_MODULES : StartsWithDotted(module, restricted)

\* The statements of a file, one per line: import m, from m import n,
\* and a call f(...) or x.f(...).
Import(module) == [kind |-> "import", module |-> module, name |-> "none"]
ImportFrom(module, name) == [kind |-> "from", module |-> module, name |-> name]
Call(name) == [kind |-> "call", module |-> None, name |-> name]

ImportIssue(line, module) ==
  [type |-> "restricted_import", line |-> line, what |-> module]

\* The issues check_imports appends for the statement of one line.
StatementImportIssues(stmt, line) ==
  CASE stmt.kind = "import" ->
         IF IsRestrictedModule(stmt.module)
           THEN <<ImportIssue(line, stmt.module)>> ELSE <<>>
    [] stmt.kind = "from" ->
         (IF IsRestrictedModule(stmt.module)
            THEN <<ImportIssue(line, stmt.module)>> ELSE <<>>)
         \o (IF stmt.name \in RESTRICTED_OPERATIONS
               THEN <<ImportIssue(line, Append(stmt.module, stmt.name))>>
               ELSE <<>>)
    [] OTHER -> <<>>

\* None in RESTRICTED_MODULES is False and None.startswith raises
\* AttributeError.
ImportsRaise(stmts) ==
  \E i \in 1..Len(stmts) : stmts[i].kind = "from" /\ stmts[i].module = None

RECURSIVE ImportIssuesFrom(_, _)
ImportIssuesFrom(stmts, i) ==
  IF i > Len(stmts) THEN <<>>
  ELSE StatementImportIssues(stmts[i], i) \o ImportIssuesFrom(stmts, i + 1)

check_imports(stmts) == ImportIssuesFrom(stmts, 1)

RECURSIVE OperationIssuesFrom(_, _)
OperationIssuesFrom(stmts, i) ==
  IF i > Len(stmts) THEN <<>>
  ELSE (IF stmts[i].kind = "call" /\ stmts[i].name \in RESTRICTED_OPERATIONS
          THEN <<[type |-> "restricted_operation", line |-> i,
                  what |-> <<stmts[i].name>>]>>
          ELSE <<>>)
       \o OperationIssuesFrom(stmts, i + 1)

check_operations(stmts) == OperationIssuesFrom(stmts, 1)

\* A .py file: whether it can be read as UTF-8, the line of its syntax
\* error (0: it parses), and its statements.
PyFile(stmts) == [readable |-> TRUE, syntax_error |-> 0, stmts |-> stmts]
Unreadable == [readable |-> FALSE, syntax_error |-> 0, stmts |-> <<>>]
Unparsable(line) == [readable |-> TRUE, syntax_error |-> line, stmts |-> <<>>]

FileError == [type |-> "file_error", line |-> 0, what |-> None]

\* (variant: the issues found go on being collected after a syntax error)
SyntaxErrorIssues_mut(file) ==
  <<[type |-> "syntax_error", line |-> file.syntax_error, what |-> None],
    FileError>>

SyntaxErrorIssues(file) ==
  <<[type |-> "syntax_error", line |-> file.syntax_error, what |-> None]>>

validate_python_file(file) ==
  IF ~file.readable THEN <<FileError>>
  ELSE IF file.syntax_error # 0 THEN SyntaxErrorIssues(file)
  ELSE IF ImportsRaise(file.stmts) THEN <<FileError>>
  ELSE check_imports(file.stmts) \o check_operations(file.stmts)

\* A line of requirements.txt: a requirement (the text before the first
\* of = < > ! ~ and the version specifier after it), a comment, or a
\* blank line.
Requirement(name, specifier) ==
  [kind |-> "requirement", name |-> name, specifier |-> specifier]
CommentLine == [kind |-> "comment", name |-> "# paramiko", specifier |-> ""]
BlankLine == [kind |-> "blank", name |-> "", specifier |-> ""]

\* str.lower() on the names of the model.
Lower(name) ==
  CASE name = "pyOpenSSL" -> "pyopenssl"
    [] name = "Flask"     -> "flask"
    [] OTHER              -> name

\* package = re.split(r'[=<>!~]', line)[0].strip().lower()
PackageOf(line) == Lower(line.name)

RECURSIVE RequirementIssuesFrom(_, _)
RequirementIssuesFrom(lines, i) ==
  IF i > Len(lines) THEN <<>>
  ELSE (IF lines[i].kind = "requirement"
             /\ PackageOf(lines[i]) \in restricted_packages
          THEN <<[type |-> "restricted_package", line |-> i,
                  what |-> <<PackageOf(lines[i])>>]>>
          ELSE <<>>)
       \o RequirementIssuesFrom(lines, i + 1)

\* requirements.txt: whether it exists, whether it can be read, and its
\* lines.
Missing == [exists |-> FALSE, readable |-> FALSE, lines |-> <<>>]
Manifest(lines) == [exists |-> TRUE, readable |-> TRUE, lines |-> lines]
UnreadableManifest == [exists |-> TRUE, readable |-> FALSE, lines |-> <<>>]

validate_requirements(manifest) ==
  IF ~manifest.readable THEN <<FileError>>
  ELSE RequirementIssuesFrom(manifest.lines, 1)

\* req_issues of validate_agent_code: nothing when there is no manifest.
ManifestIssues(dir) ==
  IF ~dir.requirements.exists THEN <<>>
  ELSE validate_requirements(dir.requirements)

\* The directory as validate_agent_code counts it: the number of issues
\* of each .py file and of the manifest.
StoredBundle(dir) ==
  [exists    |-> TRUE,
   pyIssues  |-> [i \in 1..Len(dir.files) |->
                    Len(validate_python_file(dir.files[i]))],
   reqIssues |-> Len(ManifestIssues(dir)),
   entry     |-> TRUE]

\* result["issues"]: an entry {file, issues} for each .py file that has
\* issues, then one for requirements.txt (file 0) when it has issues.
RECURSIVE FileEntriesFrom(_, _)
FileEntriesFrom(files, i) ==
  IF i > Len(files) THEN <<>>
  ELSE (IF validate_python_file(files[i]) # <<>>
          THEN <<[file |-> i, issues |-> validate_python_file(files[i])]>>
          ELSE <<>>)
       \o FileEntriesFrom(files, i + 1)

validation_issues(dir) ==
  FileEntriesFrom(dir.files, 1)
  \o (IF ManifestIssues(dir) # <<>>
        THEN <<[file |-> 0, issues |-> ManifestIssues(dir)]>>
        ELSE <<>>)

\* The files and manifests the bundles of the model are made of.
PyFiles ==
  {PyFile(<<Import(<<"json">>)>>),
   PyFile(<<Import(<<"os">>), Import(<<"socketserver">>)>>),
   PyFile(<<Import(<<"subprocess">>)>>),
   PyFile(<<Import(<<"json">>), Import(<<"importlib", "util">>)>>),
   PyFile(<<ImportFrom(<<"os">>, "path")>>),
   PyFile(<<ImportFrom(<<"json">>, "dumps"), ImportFrom(<<"pickle">>, "loads")>>),
   PyFile(<<ImportFrom(<<"os">>, "system")>>),
   PyFile(<<ImportFrom(<<"helpers">>, "greet")>>),
   PyFile(<<ImportFrom(<<"multiprocessing">>, "Process")>>),
   PyFile(<<ImportFrom(None, "helpers")>>),
   PyFile(<<Import(<<"socket">>), ImportFrom(None, "helpers")>>),
   PyFile(<<Call("print"), Call("open")>>),
   Unparsable(1),
   Unreadable}

FileSeqs ==
  UNION {[1..n -> PyFiles] : n \in 1..MaxFiles}

ReqLines ==
  {Requirement(name, specifier) :
     name \in restricted_packages \cup {"requests", "Flask"},
     specifier \in {"", "==1.0"}}
  \cup {CommentLine, BlankLine}

Manifests ==
  {Manifest(lines) : lines \in UNION {[1..n -> ReqLines] : n \in 1..MaxLines}}
  \cup {UnreadableManifest}

\* The stored bundles: every sequence of files with a manifest that is
\* missing, clean or offending, and every manifest next to one file.
ValDirs ==
  [files : FileSeqs,
   requirements : {Missing, Manifest(<<Requirement("requests", "")>>),
                   Manifest(<<BlankLine, Requirement("paramiko", "==1.0")>>)}]
  \cup
  [files : {<<PyFile(<<Import(<<"json">>)>>)>>,
            <<PyFile(<<Import(<<"subprocess">>)>>)>>},
   requirements : Manifests]

NoReport ==
  [op |-> "none", agent_id |-> "none",
   validation |-> [valid |-> FALSE, issues |-> <<>>, reason |-> FALSE],
   issues |-> <<>>]

ValInit ==
  /\ use_containers = TRUE
  /\ PoolInit
  /\ CtxIdle
  /\ nested = <<>>
  /\ docker = <<>>
  /\ storage \in [Agents -> ValDirs]
  /\ response = NoReport

\* validate_agent_code(os.path.join(storage_path, agent_id))
validate_stored(agent_id) ==
  /\ response' = [op |-> "validate", agent_id |-> agent_id,
                  validation |-> validate_agent_code(StoredBundle(storage[agent_id])),
                  issues |-> validation_issues(storage[agent_id])]
  /\ UNCHANGED <<use_containers, poolVars, ctxVars, nested, hostVars>>

ValNext == \E agent_id \in Agents : validate_stored(agent_id)

ValSpec == ValInit /\ [][ValNext]_vars

(* ---------------------------------------------------------------------- *)
(* Agent storage: POST /agents                                             *)
(* ---------------------------------------------------------------------- *)
\* The agent ids of the storage path, the files of a bundle, and what a
\* file holds: nothing, code without issues, or code with a restricted
\* import.
AgentIds == {"a1", "a2"}
FileOrder == <<"agent.py", "helpers.py">>
FileNames == {FileOrder[i] : i \in 1..Len(FileOrder)}
Contents == {"absent", "clean", "bad"}

\* A directory under the storage path; agent.json is there when it exists.
AbsentDir == [exists |-> FALSE, files |-> [f \in FileNames |-> "absent"]]

\* An uploaded ZIP: whether agent.json is in it with the required fields,
\* the agent_id its metadata names ("none": no such key), and its files.
Uploads ==
  [has_metadata : BOOLEAN, agent_id : {"none"} \cup AgentIds,
   files : [FileNames -> Contents]]

\* agent_id = metadata.get("agent_id", str(uuid.uuid4())): the id the
\* metadata names, else one no directory is stored under.
AgentIdOf(store, upload) ==
  IF upload.agent_id # "none" THEN upload.agent_id
  ELSE CHOOSE id \in AgentIds : ~store[id].exists

\* Agent.create_from_zip: os.makedirs(agent_dir, exist_ok=True), every
\* item of the ZIP copied over what is there, agent.json written.
create_from_zip(store, upload) ==
  LET agent_id == AgentIdOf(store, upload)
  IN  [store EXCEPT ![agent_id] =
         [exists |-> TRUE,
          files  |-> [f \in FileNames |->
                        IF upload.files[f] # "absent" THEN upload.files[f]
                        ELSE store[agent_id].files[f]]]]

\* Agent.delete: shutil.rmtree(agent_dir); an exception is logged.
delete(store, agent_id, rmtree_ok) ==
  IF rmtree_ok THEN [store EXCEPT ![agent_id] = AbsentDir] ELSE store

\* The stored directory as validate_agent_code counts it.
DirBundle(dir) ==
  [exists    |-> dir.exists,
   pyIssues  |-> [i \in 1..Len(FileOrder) |->
                    IF dir.files[FileOrder[i]] = "bad" THEN 1 ELSE 0],
   reqIssues |-> 0,
   entry     |-> dir.files["agent.py"] # "absent"]

NoSubmission ==
  [op |-> "none", status |-> 0, agent_id |-> "none",
   upload |-> [has_metadata |-> FALSE, agent_id |-> "none",
               files |-> [f \in FileNames |-> "absent"]],
   before |-> [id \in AgentIds |-> AbsentDir]]

SubmitInit ==
  /\ use_containers = TRUE
  /\ PoolInit
  /\ CtxIdle
  /\ nested = <<>>
  /\ docker = <<>>
  /\ storage = [id \in AgentIds |-> AbsentDir]
  /\ response = NoSubmission

\* POST /agents with a ZIP file: create_from_zip, validate_agent_code on
\* the stored directory, agent.delete() and 400 when it is not valid.
submit_agent(upload, rmtree_ok) ==
  /\ upload.agent_id = "none" => \E id \in AgentIds : ~storage[id].exists
  /\ IF ~upload.has_metadata
       THEN \* ValueError out of create_from_zip: 500
            /\ response' = [op |-> "submit", status |-> 500,
                            agent_id |-> "none", upload |-> upload,
                            before |-> storage]
            /\ UNCHANGED storage
       ELSE LET agent_id == AgentIdOf(storage, upload)
                stored == create_from_zip(storage, upload)
                validation == validate_agent_code(DirBundle(stored[agent_id]))
            IN  IF ~validation.valid
                  THEN /\ storage' = delete(stored, agent_id, rmtree_ok)
                       /\ response' = [op |-> "submit", status |-> 400,
                                       agent_id |-> agent_id,
                                       upload |-> upload, before |-> storage]
                  ELSE /\ storage' = stored
                       /\ response' = [op |-> "submit", status |-> 201,
                                       agent_id |-> agent_id,
                                       upload |-> upload, before |-> storage]
  /\ UNCHANGED <<use_containers, poolVars, ctxVars, nested, docker>>

SubmitNext ==
  \E upload \in Uploads, rmtree_ok \in BOOLEAN : submit_agent(upload, rmtree_ok)

SubmitSpec == SubmitInit /\ [][SubmitNext]_vars

(* ---------------------------------------------------------------------- *)
(* Specification                                                           *)
(* ---------------------------------------------------------------------- *)
Next ==
  \/ \E a \in Agents : queue_execution(a)
  \/ \E w \in Workers : Dequeue(w)
  \/ \E w \in Workers : execute_agent_job(w)
  \/ \E w \in Workers : container_exit(w)
  \/ \E w \in Workers : subprocess_returns(w)
  \/ \E w \in Workers : subprocess_timeout(w)
  \/ \E w \in Workers : send_callback(w)
  \/ \E w \in Workers : handle_job_success(w)
  \/ \E w \in Workers : work_horse_dies(w)
  \/ \E id \in Ids : expire(id)
  \/ \E id \in Ids : get_execution_status(id)
  \/ \E id \in Ids : cancel_execution(id)

Spec == Init /\ [][Next]_vars

(* ---------------------------------------------------------------------- *)
(* Properties                                                              *)
(* ---------------------------------------------------------------------- *)
Held(id) == {w \in Workers : wjob[w] = id}

\* The executor has been invoked in the worker's current run.
ExecutorInvoked(w) ==
  wpc[w] \in {"wait", "returned"} \/ execResult[w] # "none"

\* C1: in every run of execute_agent_job the executor is invoked only when
\* validate_agent_code returned valid for the bundle in that run, and a run
\* whose validation returned invalid never invokes the executor.
C1_ExecutorOnlyAfterValidation ==
  \A w \in Workers :
    /\ ExecutorInvoked(w) => valRes[w] = "valid"
    /\ valRes[w] = "invalid" =>
         /\ ~ExecutorInvoked(w)
         /\ execCalls[wjob[w]] = 0
         /\ container[w] = "none"

C1_Witness ==
  \E w \in Workers :
    /\ execResult[w] = "results"
    /\ valRes[w] = "valid"
    /\ execCalls[wjob[w]] = 1

\* C2: whatever the interleaving of enqueue, dequeue, status and cancel, a
\* job is held by at most one worker at a time, the executor is invoked for
\* it at most once, and a job that finished with the executor's result was
\* executed exactly once.
C2_OneWorkerPerJob ==
  \A id \in Ids :
    /\ Cardinality(Held(id)) <= 1
    /\ execCalls[id] <= 1
    /\ (job[id].status = "finished"
          /\ job[id].result \notin {"err_job", "err_validation"})
         => execCalls[id] = 1

C2_Witness ==
  \E id \in Ids, w \in Workers, v \in Workers :
    /\ wjob[w] = id
    /\ execCalls[id] = 1
    /\ v # w
    /\ wpc[v] = "idle"
    /\ Calls = 2

\* The lifecycle status of a job as a caller can know it: the status in
\* the job's hash; cancelled when cancel has returned cancelled and the
\* hash is gone.
Lifecycle(id) ==
  IF job[id].status # "none" THEN job[id].status
  ELSE IF cancelled[id] # "no" THEN "cancelled"
  ELSE IF issued[id] > 0 THEN "evicted"
  ELSE "created"

TerminalStatuses == {"finished", "failed", "cancelled"}

StatusCancelOrFinish ==
  \/ \E id \in Ids : get_execution_status(id)
  \/ \E id \in Ids : cancel_execution(id)
  \/ \E w \in Workers : handle_job_success(w)

\* C3: once a job is in a terminal status, no status call, cancel call or
\* worker finishing changes it; cancelled is entered only from queued or
\* started; and a status call changes nothing but its return value.
C3_TerminalIsFinal ==
  [][\A id \in Ids :
       /\ (StatusCancelOrFinish /\ Lifecycle(id) \in TerminalStatuses)
            => Lifecycle(id)' = Lifecycle(id)
       /\ (Lifecycle(id)' = "cancelled" /\ Lifecycle(id) # "cancelled")
            => Lifecycle(id) \in {"queued", "started"}
       /\ get_execution_status(id) =>
            UNCHANGED <<ctxVars, nestVars, use_containers, hostVars, issued, queue, job, taken, execCalls,
                        cancelled, killSent, wpc, wjob, wdata, valRes,
                        workspace, container, execResult, notified, wres>>
    ]_vars

\* C4: every id returned by queue_execution differs from every id returned
\* by another call, identical payloads included: no id is returned twice.
C4_DistinctExecutionIds ==
  /\ \A id \in Ids : issued[id] <= 1
  /\ Cardinality(IssuedIds) = Calls

C4_Witness ==
  /\ Calls = 2
  /\ Cardinality(IssuedIds) = 2
  /\ \A id \in IssuedIds : job[id].status = "queued" /\ job[id].agent = "echo"

\* C5: get_execution_status on an id that has no job (never enqueued,
\* evicted or deleted) returns an error value and does not raise.
C5_StatusUnknownIsNotFound ==
  (ret.op = "status" /\ job[ret.id].status = "none")
    => (ret.status = "error" /\ ~ret.raised)

C5_Witness ==
  /\ ret.op = "status"
  /\ ret.status = "error"
  /\ ~ret.raised
  /\ issued[ret.id] = 1
  /\ job[ret.id].status = "none"

\* C6: cancel_execution on a finished or failed job returns that status,
\* leaves the queue, the job's hash and every container as they were and
\* sends no docker kill, each time it is called.
C6_CancelTerminalIsNoOp ==
  [][\A id \in Ids :
       (job[id].status \in {"finished", "failed"} /\ cancel_execution(id))
         => /\ ret'.op = "cancel"
            /\ ret'.status = job[id].status
            /\ ~ret'.raised
            /\ UNCHANGED <<queue, job, container, workspace, killSent, cancelled>>
    ]_vars

C6_Witness ==
  /\ ret.op = "cancel"
  /\ ret.status \in {"finished", "failed"}
  /\ job[ret.id].status = ret.status
  /\ ~killSent[ret.id]

\* C7: a cancel of a job that an earlier cancel has cancelled returns
\* cancelled again and changes no state.
C7_CancelIdempotent ==
  [][\A id \in Ids :
       (cancelled[id] # "no" /\ cancel_execution(id))
         => /\ ret'.status = "cancelled"
            /\ UNCHANGED <<queue, job, container, workspace, killSent, cancelled>>
    ]_vars

C9_WorkspaceGoneOnReturn ==
  \A w \in Workers :
    wpc[w] \in {"returned", "rq"} => workspace[w] # "exists"

\* C10: when execute has returned, no container spawned for the run is
\* still running, on every exit path including the timeout.
C10_ContainerReleasedOnReturn ==
  \A w \in Workers :
    wpc[w] \in {"returned", "rq"} => container[w] # "running"

Kind(result) == [status |-> result.status, error |-> result.error]

SentCalls == SelectSeq(calls, LAMBDA c : c.op = "send_message")

\* C11: execute_agent never raises out of the call: whenever it is over,
\* no exception has left it and it has returned a result value.
C11_ExecuteNeverRaises ==
  rpc \in {"executed", "done"} =>
    (execRaised = "none" /\ execRet # NoResult)

\* C12: the failure modes of the isolated executor report kinds that tell
\* them apart: a non-zero exit yields a failure result, and the result of
\* a run whose artifact is absent after a zero exit has a kind that no
\* non-zero exit, timeout or missing entry point reports.
C12_FailureKindsDistinct ==
  (rpc = "executed" /\ use_containers /\ found # NothingFound) =>
    /\ found.exit_code = "nonzero" => execRet.status = "error"
    /\ (found.artifact = "absent" /\ found.exit_code = "zero") =>
         /\ \A stderr \in {"empty", "text"} :
              Kind(execRet) #
                Kind(ContainerResult("absent", "nonzero", stderr, NoResult))
         /\ Kind(execRet) # Kind(TimeoutResult)
         /\ Kind(execRet) # Kind(EntryResult)

\* C13: after n send_message calls, however they are interleaved with
\* invoke_agent and invoke_llm calls that succeed or fail, results() holds
\* exactly n message events, in the order of the calls, and message_count
\* is n; the same holds of the aggregate the executor returns.
C13_MessageEventsMatchCalls ==
  LET r == get_execution_results(ctx_results, ctx_llm_calls)
      msgs == SelectSeq(r.results, IsMessage)
  IN  /\ Len(msgs) = Len(SentCalls)
      /\ \A i \in 1..Len(msgs) : msgs[i].message_id = SentCalls[i].message_id
      /\ r.message_count = Len(SentCalls)
      /\ execRet.aggregate =>
           /\ execRet.message_count = Len(SentCalls)
           /\ SelectSeq(execRet.results, IsMessage) = msgs

C13_Witness ==
  /\ Len(calls) = 3
  /\ calls[1].op = "send_message"
  /\ calls[2].op = "invoke_agent"
  /\ calls[3].op = "send_message"
  /\ Len(ctx_results) = 2
  /\ execRet.aggregate
  /\ execRet.message_count = 2

\* C14: a failed relay in send_message or a failed completion callback
\* does not raise, lets the run go on, and leaves the event log and the
\* value execute_agent_job returns as they are when delivery succeeds.
C14_NotificationFailureHarmless ==
  /\ ctx_results = undisturbed
  /\ callRet.op = "send_message" => ~callRet.raised
  /\ (rpc = "running" /\ callRet.op = "send_message" /\ callRet.reply # "json")
       => ENABLED entry_point_ends("returns")
  /\ (rpc = "done" /\ execRaised = "none") =>
       /\ ~jobRet.raised
       /\ jobRet.value = execRet

C14_Witness ==
  /\ rpc = "done"
  /\ callRet.op = "send_message"
  /\ callRet.reply = "conn_error"
  /\ ~jobRet.delivered
  /\ jobRet.value = execRet
  /\ execRet.aggregate
  /\ execRet.message_count = 2

\* C16: invoke_agent and invoke_llm never raise into the agent code: a
\* connection error, a timeout and a non-JSON response each come back as
\* an error value, a JSON response as the result.
C16_InvokeNeverRaises ==
  callRet.op \in {"invoke_agent", "invoke_llm"} =>
    /\ ~callRet.raised
    /\ callRet.value = IF callRet.reply = "json" THEN "result" ELSE "error"

C16_Witness ==
  /\ callRet.op = "invoke_llm"
  /\ callRet.reply = "non_json"
  /\ callRet.value = "error"
  /\ Len(calls) = 2
  /\ calls[1].op = "invoke_agent"
  /\ ctx_results = <<>>
  /\ rpc = "ended"

\* C17: in both modes get_execution_results is called exactly once in a
\* run whose entry point returned or raised, and execute_agent returns
\* that aggregate, the events recorded before a raise included.
C17_ResultsOncePerRun ==
  (rpc \in {"executed", "done"} /\ ended \in {"returns", "raises"}) =>
    /\ resultsCalls = 1
    /\ execRet.aggregate
    /\ execRet.results = ctx_results

\* a nesting limit below what the model's bound on jobs lets a chain reach
NestingLimit == MaxNested - 2

\* C15: when the nested-invocation endpoint has answered a call made by
\* execution A, a nested job has been enqueued whose recorded
\* parent_execution_id is A.
C15_NestedJobRecordsParent ==
  response.op = "invoke" =>
    /\ response.execution_id \in 1..Len(nested)
    /\ nested[response.execution_id].parent = response.parent

\* C18: the call that waits for a result does not raise and gives back
\* the result of a finished job, the failure record of a failed one and
\* null for a job that is not terminal.
C18_AwaitResult ==
  response.op \in {"get_execution", "invoke"} =>
    /\ response.raised = "none"
    /\ response.execution_id \in 1..Len(nested)
    /\ response.value =
         CASE nested[response.execution_id].status = "finished" -> "result"
           [] nested[response.execution_id].status = "failed" -> "failure_record"
           [] OTHER -> "null"

\* C19: the parent relation has no cycle and no chain of parents is
\* longer than the nesting limit.
C19_NestingAcyclicAndBounded ==
  \A id \in 1..Len(nested) :
    /\ \A i \in 1..Depth(id) : Chain(id, Len(nested))[i] # id
    /\ Depth(id) <= NestingLimit

\* C20: a run that exceeded its timeout is never reported with status
\* finished: no finished job carries the timeout result.
C20_TimedOutNotFinished ==
  \A id \in Ids :
    job[id].status = "finished" => job[id].result # "err_timeout"

\* C25: after queue_execution returned id X, status(X) reports queued for
\* as long as no worker has taken the job (and nobody cancelled it), and
\* once the worker has saved the job as finished, status(X) reports it
\* finished with the aggregate of get_execution_results as its result,
\* the one that carries stats.message_count (a length, so >= 0).
C25_QueuedThenFinishedWithStats ==
  \A id \in Ids :
    /\ (issued[id] > 0 /\ id \notin taken /\ cancelled[id] = "no")
         => StatusResult(id).status = "queued"
    /\ StatusResult(id).status = "finished" => job[id].result = "results"

\* C27: when execute_agent_job returns, the worker's run has made exactly
\* one attempt to post to the execution-complete endpoint, whatever the
\* outcome of the run.
C27_OneNotificationPerJob ==
  \A w \in Workers : wpc[w] = "rq" => notified[w] = 1

IsLlmCall(e) == e.type = "llm_call"

\* C28: in the result of get_execution_results, stats.llm_calls is the
\* number of llm_call events of the event log, after any sequence of
\* invoke_llm calls that succeed or fail; the same holds of the aggregate
\* the executor returns.
C28_LlmCallsMatchEvents ==
  LET r == get_execution_results(ctx_results, ctx_llm_calls)
  IN  /\ r.llm_calls = Len(SelectSeq(r.results, IsLlmCall))
      /\ execRet.aggregate =>
           execRet.llm_calls = Len(SelectSeq(execRet.results, IsLlmCall))

\* C26: the execution_id /execute and /invoke answer with is the id the
\* job was enqueued under: the request does not raise and a job is stored
\* under the returned id, so status and cancel find it.
C26_ReturnedIdNamesJob ==
  response.op \in {"execute", "invoke"} =>
    /\ response.raised = "none"
    /\ response.execution_id \in 1..Len(nested)

\* C29: cancel(execution_id) signals only the container of that
\* execution: the name cancel computes is the name the executor launched
\* the execution under, and two distinct executions that are running
\* (started) at the same time never map to the same container name.
C29_CancelSignalsOwnContainer ==
  /\ \A u \in Uuids : container_id(u) = container_name(u)
  /\ (ret.op = "cancel" /\ ret.signalled # NoContainer)
       => ret.signalled = ret.id
  /\ \A u, v \in Uuids :
       (u # v /\ job[u].status = "started" /\ job[v].status = "started")
         => container_name(u) # container_name(v)

\* The issues the report lists for a file (0: requirements.txt).
IssuesOfFile(entries, f) ==
  IF \E k \in 1..Len(entries) : entries[k].file = f
    THEN entries[CHOOSE k \in 1..Len(entries) : entries[k].file = f].issues
    ELSE <<>>

\* The dotted name a statement imports that is on the module denylist or
\* below an entry of it: the module of import m and from m import n, or
\* m.n of from m import n.
DeniedNames(stmt) ==
  IF stmt.kind \notin {"import", "from"} THEN {}
  ELSE {m \in {stmt.module} \cup
               (IF stmt.kind = "from" THEN {Append(stmt.module, stmt.name)}
                                      ELSE {}) :
          m # None /\ IsRestrictedModule(m)}

\* A bundle with none of the constructs the validator denies: every file
\* is readable and parses, no statement imports a denied name or calls a
\* denied operation, and the manifest names no denied package.
NothingDenied(dir) ==
  /\ \A i \in 1..Len(dir.files) :
       /\ dir.files[i].readable
       /\ dir.files[i].syntax_error = 0
       /\ \A l \in 1..Len(dir.files[i].stmts) :
            LET stmt == dir.files[i].stmts[l]
            IN  /\ DeniedNames(stmt) = {}
                /\ stmt.kind \in {"from", "call"}
                     => stmt.name \notin RESTRICTED_OPERATIONS
  /\ dir.requirements.exists =>
       /\ dir.requirements.readable
       /\ \A l \in 1..Len(dir.requirements.lines) :
            dir.requirements.lines[l].kind = "requirement" =>
              \A p \in restricted_packages :
                Lower(dir.requirements.lines[l].name) # Lower(p)

\* C21: a bundle with a denied import (import m or from m import n where
\* the imported name is on the module denylist or a dotted descendant of
\* an entry) is reported invalid with an issue naming that module and its
\* line; a bundle with none of the denied constructs, relative
\* from-imports included, is reported valid without issues.
C21_DeniedImportsFlagged ==
  response.op = "validate" =>
    LET dir == storage[response.agent_id]
    IN  /\ \A i \in 1..Len(dir.files) :
             \A l \in 1..Len(dir.files[i].stmts) :
               \A m \in DeniedNames(dir.files[i].stmts[l]) :
                 /\ ~response.validation.valid
                 /\ \E k \in 1..Len(IssuesOfFile(response.issues, i)) :
                      LET issue == IssuesOfFile(response.issues, i)[k]
                      IN  /\ issue.type = "restricted_import"
                          /\ issue.line = l
                          /\ issue.what = m
        /\ NothingDenied(dir) =>
             /\ response.validation.valid
             /\ response.issues = <<>>

\* C22: valid is true exactly when the aggregate issue list over all the
\* source files and the manifest is empty, so one issue in one file or in
\* the manifest makes the bundle invalid; reason is there exactly when
\* valid is false.
C22_ValidIffNoIssues ==
  response.op = "validate" =>
    LET dir == storage[response.agent_id]
    IN  /\ response.validation.valid <=> response.issues = <<>>
        /\ response.validation.valid <=>
             /\ \A i \in 1..Len(dir.files) :
                  validate_python_file(dir.files[i]) = <<>>
             /\ ManifestIssues(dir) = <<>>
        /\ response.validation.reason <=> ~response.validation.valid

C22_Witness ==
  /\ response.op = "validate"
  /\ ~response.validation.valid
  /\ response.validation.reason
  /\ Len(response.issues) = 1
  /\ response.issues[1].file = 0
  /\ Len(storage[response.agent_id].files) = 2

\* C23: a file that does not parse contributes one syntax_error issue and
\* nothing else, and the scan goes on: every other file and the manifest
\* are reported with the issues they have on their own.
C23_SyntaxErrorIsolated ==
  response.op = "validate" =>
    LET dir == storage[response.agent_id]
    IN  /\ \A i \in 1..Len(dir.files) :
             (dir.files[i].readable /\ dir.files[i].syntax_error # 0) =>
               /\ Len(IssuesOfFile(response.issues, i)) = 1
               /\ IssuesOfFile(response.issues, i)[1].type = "syntax_error"
               /\ IssuesOfFile(response.issues, i)[1].line =
                    dir.files[i].syntax_error
               /\ Cardinality({k \in 1..Len(response.issues) :
                                 response.issues[k].file = i}) = 1
        /\ \A j \in 1..Len(dir.files) :
             IssuesOfFile(response.issues, j) =
               validate_python_file(dir.files[j])
        /\ IssuesOfFile(response.issues, 0) = ManifestIssues(dir)

C23_Witness ==
  /\ response.op = "validate"
  /\ storage[response.agent_id].files =
       <<Unparsable(1), PyFile(<<Import(<<"subprocess">>)>>)>>
  /\ Len(response.issues) = 2
  /\ response.issues[1].issues[1].type = "syntax_error"
  /\ response.issues[2].issues[1].type = "restricted_import"

\* C24: every line of the manifest that names a package of the package
\* denylist, with or without a version specifier, gets a
\* restricted_package issue; a manifest that names none gets no issue;
\* a missing manifest is not an error.
C24_DeniedPackagesFlagged ==
  response.op = "validate" =>
    LET dir == storage[response.agent_id]
        found_issues == IssuesOfFile(response.issues, 0)
        lines == dir.requirements.lines
        Denied(l) == /\ lines[l].kind = "requirement"
                     /\ \E p \in restricted_packages :
                          Lower(lines[l].name) = Lower(p)
    IN  /\ ~dir.requirements.exists => found_issues = <<>>
        /\ (dir.requirements.exists /\ dir.requirements.readable) =>
             /\ \A l \in 1..Len(lines) :
                  Denied(l) =>
                    \E k \in 1..Len(found_issues) :
                      /\ found_issues[k].type = "restricted_package"
                      /\ found_issues[k].line = l
             /\ (\A l \in 1..Len(lines) : ~Denied(l)) => found_issues = <<>>

\* C30: a submission that fails validation (400) leaves the storage as it
\* was before the request: no file of the rejected bundle is stored, and
\* every agent stored before, the one the bundle's metadata names
\* included, is there with the files it had.
C30_RejectedSubmissionLeavesStorage ==
  (response.op = "submit" /\ response.status = 400) =>
    storage = response.before

====
